---- MODULE Spec2Model ----
(***************************************************************************)
(* Model of package scanner: the concurrent directory traversal (scan/do), *)
(* the streaming entry point Scan, the synchronous collector ScanSync and  *)
(* the select loop of the README's asynchronous example.                   *)
(*                                                                         *)
(* A path is the sequence of entry names below the root, so that           *)
(* filepath.Join(pp, name) is Append(pp, name).  A directory tree is a     *)
(* function from the paths that exist to the kind of entry found there.    *)
(***************************************************************************)
EXTENDS Integers, Sequences, FiniteSets, TLC

\* ---------------------------------------------------------------- bounds
MaxWidth == 2      \* entries in one directory
MaxLevel == 3      \* levels of entries below the root
MaxEntries == 3    \* entries in the whole tree, root excluded
MaxCPU == 4        \* runtime.NumCPU() ranges over 1..MaxCPU
MaxDepthArg == 1   \* maxDepth ranges over -1..MaxDepthArg

\* ---------------------------------------------------------------- file system
\* "dir" is a readable directory, "bad" a directory whose read fails,
\* "file" any entry for which DirEntry.IsDir() is false.
Kinds == {"file", "dir", "bad"}

root == <<>>

Join(pp, name) == Append(pp, name)

Size(f) == Cardinality(DOMAIN f)

RECURSIVE Forest(_, _, _, _)
\* The contents of directory pp: entries named k..MaxWidth (names are used
\* from 1 upwards), at most lvl levels deep and at most n entries in all.
Forest(pp, lvl, k, n) ==
    IF k > MaxWidth \/ lvl = 0 \/ n = 0
    THEN {<<>>}
    ELSE {<<>>} \cup UNION { UNION {
             { (Join(pp, k) :> kd) @@ sub @@ rest :
                   rest \in Forest(pp, lvl, k + 1, n - 1 - Size(sub)) } :
               sub \in (IF kd = "file" THEN {<<>>}
                        ELSE Forest(Join(pp, k), lvl - 1, 1, n - 1)) } :
             kd \in Kinds }

Trees == { (root :> rk) @@ f : rk \in {"dir", "bad"},
                                f \in Forest(root, MaxLevel, 1, MaxEntries) }

\* os.DirEntry: the name and the type bit the traversal consults.
DirEntry(name, kd) == [name |-> name, isDir |-> kd # "file"]

IsDir(de) == de.isDir

RECURSIVE Listing(_, _, _)
\* The entries of pp named k or more, in the order of their names.
Listing(tr, pp, k) ==
    IF k > MaxWidth THEN <<>>
    ELSE IF Join(pp, k) \in DOMAIN tr
         THEN <<DirEntry(k, tr[Join(pp, k)])>> \o Listing(tr, pp, k + 1)
         ELSE Listing(tr, pp, k + 1)

NilErr == [isNil |-> TRUE, path |-> <<>>]

PathError(pp) == [isNil |-> FALSE, path |-> pp]

\* Mutation: a failed read yields an empty listing and no error.
ReadDirIgnoresError(tr, pp) ==
    IF pp \in DOMAIN tr /\ tr[pp] = "dir"
    THEN [des |-> Listing(tr, pp, 1), err |-> NilErr]
    ELSE [des |-> <<>>, err |-> NilErr]

\* os.ReadDir: the entries sorted by name, or an error.
ReadDir(tr, pp) ==
    IF pp \in DOMAIN tr /\ tr[pp] = "dir"
    THEN [des |-> Listing(tr, pp, 1), err |-> NilErr]
    ELSE [des |-> <<>>, err |-> PathError(pp)]

\* ---------------------------------------------------------------- filters
Filters == {"nil", "FilterDir", "FilterFile"}

FilterDir(p, de) == IsDir(de)

FilterFile(p, de) == ~IsDir(de)

\* The call fn(path, de) for a non-nil fn.
Call(fn, p, de) ==
    IF fn = "FilterDir" THEN FilterDir(p, de) ELSE FilterFile(p, de)

\* Mutation: the filter test is inverted.
SkipInverted(fn, p, de) == fn # "nil" /\ Call(fn, p, de)

\* The condition of the continue statement in scan.do.
Skip(fn, p, de) == fn # "nil" /\ ~Call(fn, p, de)

\* Mutation: a negative depth is taken to forbid recursion.
RecurseOnlyPositive(mm, de) == mm > 0 /\ IsDir(de)

\* The condition under which scan.do starts a task for an entry.
Recurse(mm, de) == mm # 0 /\ IsDir(de)

\* Mutation: the depth moves towards 0 from either side.
ChildDepthTowardZero(mm) == IF mm > 0 THEN mm - 1 ELSE mm + 1

\* Mutation: the depth is handed down without the decrement.
ChildDepthSame(mm) == mm

\* The depth handed to the task of a subdirectory.
ChildDepth(mm) == mm - 1

\* The capacity of the limiter channel s.
Capacity(ncpu) == IF ncpu \div 2 > 1 THEN ncpu \div 2 ELSE 1

\* ---------------------------------------------------------------- state
VARIABLES
    tree,       \* the directory tree being scanned
    maxDepth,   \* argument maxDepth
    filter,     \* argument filter
    sCap,       \* cap(s)
    mode,       \* "sync": ScanSync is the consumer; "stream": the README loop
    scanPc,     \* position of the goroutine started by Scan
    tasks,      \* the invocations of do, by directory path
    wg,         \* the WaitGroup counter
    s,          \* len(s): limiter slots in use
    rcCloses,   \* number of close(rc) executed
    ecCloses,   \* number of close(ec) executed
    cpc,        \* the consumer: "run" or "returned"
    r,          \* the paths the consumer has collected
    errs,       \* the errors the streaming consumer has reported
    retErr,     \* the error returned by ScanSync
    recvLog,    \* every receive of the consumer, in order
    ecSeen,     \* the consumer has observed ec closed
    call,       \* which ScanSync call of the caller this is: 1 or 2
    first       \* the set of paths the caller's first ScanSync call returned

vars == <<tree, maxDepth, filter, sCap, mode, scanPc, tasks, wg, s, rcCloses,
          ecCloses, cpc, r, errs, retErr, recvLog, ecSeen, call, first>>

\* What the caller keeps from one ScanSync call to the next.
prev == <<call, first>>

args == <<tree, maxDepth, filter, sCap, mode>>

Init ==
    /\ tree \in Trees
    /\ maxDepth \in -1 .. MaxDepthArg
    /\ filter \in Filters
    /\ sCap \in { Capacity(n) : n \in 1 .. MaxCPU }
    /\ mode \in {"sync", "stream"}
    /\ scanPc = "add"
    /\ tasks = <<>>
    /\ wg = 0
    /\ s = 0
    /\ rcCloses = 0
    /\ ecCloses = 0
    /\ cpc = "run"
    /\ r = <<>>
    /\ errs = <<>>
    /\ retErr = NilErr
    /\ recvLog = <<>>
    /\ ecSeen = FALSE
    /\ call = 1
    /\ first = {}

NewTask(pc, mm) == [pc |-> pc, mm |-> mm, des |-> <<>>, i |-> 0, err |-> NilErr]

\* The entry the loop of task t is at, and its path.
De(t) == tasks[t].des[tasks[t].i]

DePath(t) == Join(t, De(t).name)

\* ---------------------------------------------------------------- scan
\* scan: wg.Add(1)
ScanAdd ==
    /\ scanPc = "add"
    /\ wg' = wg + 1
    /\ scanPc' = "acquire"
    /\ UNCHANGED <<args, prev, tasks, s, rcCloses, ecCloses, cpc, r, errs,
                   retErr, recvLog, ecSeen>>

\* scan: s <- "" and the go statement that runs do(p, m)
ScanAcquire ==
    /\ scanPc = "acquire"
    /\ s < sCap
    /\ s' = s + 1
    /\ tasks' = (root :> NewTask("read", maxDepth)) @@ tasks
    /\ scanPc' = "wait"
    /\ UNCHANGED <<args, prev, wg, rcCloses, ecCloses, cpc, r, errs,
                   retErr, recvLog, ecSeen>>

\* Mutation: the wait returns while one task is still outstanding.
WaitDoneEarly(n) == n <= 1

\* The condition on which wg.Wait() returns.
WaitDone(n) == n = 0

\* scan: wg.Wait() returns, and scan with it
ScanWait ==
    /\ scanPc = "wait"
    /\ WaitDone(wg)
    /\ scanPc' = "closeEc"
    /\ UNCHANGED <<args, prev, tasks, wg, s, rcCloses, ecCloses, cpc, r,
                   errs, retErr, recvLog, ecSeen>>

\* Mutation: the deferred close(ec) is missing.
CloseEcSkipped ==
    /\ scanPc = "closeEc"
    /\ scanPc' = "closeRc"
    /\ UNCHANGED <<args, prev, tasks, wg, s, rcCloses, ecCloses, cpc, r, errs,
                   retErr, recvLog, ecSeen>>

\* Scan: the deferred close(ec), which runs first
CloseEc ==
    /\ scanPc = "closeEc"
    /\ ecCloses' = ecCloses + 1
    /\ scanPc' = "closeRc"
    /\ UNCHANGED <<args, prev, tasks, wg, s, rcCloses, cpc, r, errs,
                   retErr, recvLog, ecSeen>>

\* Scan: the deferred close(rc), which runs last
CloseRc ==
    /\ scanPc = "closeRc"
    /\ rcCloses' = rcCloses + 1
    /\ scanPc' = "done"
    /\ UNCHANGED <<args, prev, tasks, wg, s, ecCloses, cpc, r, errs,
                   retErr, recvLog, ecSeen>>

\* ---------------------------------------------------------------- do
\* Mutation: the goroutine starts its read without waiting for a free slot.
AcquireUnguarded(t) ==
    /\ tasks[t].pc = "acquire"
    /\ s' = s + 1
    /\ tasks' = [tasks EXCEPT ![t].pc = "read"]
    /\ UNCHANGED <<args, prev, scanPc, wg, rcCloses, ecCloses, cpc, r,
                   errs, retErr, recvLog, ecSeen>>

\* the goroutine of a subdirectory: s <- ""
Acquire(t) ==
    /\ tasks[t].pc = "acquire"
    /\ s < sCap
    /\ s' = s + 1
    /\ tasks' = [tasks EXCEPT ![t].pc = "read"]
    /\ UNCHANGED <<args, prev, scanPc, wg, rcCloses, ecCloses, cpc, r,
                   errs, retErr, recvLog, ecSeen>>

\* Mutation: the loop goes through the entries from the last to the first.
ReadReversed(t) ==
    /\ tasks[t].pc = "read"
    /\ LET rd == ReadDir(tree, t)
           rev == [k \in 1 .. Len(rd.des) |-> rd.des[Len(rd.des) + 1 - k]] IN
         tasks' = [tasks EXCEPT ![t] =
                     IF rd.err.isNil
                     THEN [@ EXCEPT !.pc = "iter", !.des = rev, !.i = 1]
                     ELSE [@ EXCEPT !.pc = "senderr", !.err = rd.err]]
    /\ UNCHANGED <<args, prev, scanPc, wg, s, rcCloses, ecCloses, cpc, r,
                   errs, retErr, recvLog, ecSeen>>

\* Mutation: a failed read returns without sending the error.
ReadDropsError(t) ==
    /\ tasks[t].pc = "read"
    /\ LET rd == ReadDir(tree, t) IN
         tasks' = [tasks EXCEPT ![t] =
                     IF rd.err.isNil
                     THEN [@ EXCEPT !.pc = "iter", !.des = rd.des, !.i = 1]
                     ELSE [@ EXCEPT !.pc = "wgdone", !.err = rd.err]]
    /\ UNCHANGED <<args, prev, scanPc, wg, s, rcCloses, ecCloses, cpc, r,
                   errs, retErr, recvLog, ecSeen>>

\* do: des, err := os.ReadDir(pp)
Read(t) ==
    /\ tasks[t].pc = "read"
    /\ LET rd == ReadDir(tree, t) IN
         tasks' = [tasks EXCEPT ![t] =
                     IF rd.err.isNil
                     THEN [@ EXCEPT !.pc = "iter", !.des = rd.des, !.i = 1]
                     ELSE [@ EXCEPT !.pc = "senderr", !.err = rd.err]]
    /\ UNCHANGED <<args, prev, scanPc, wg, s, rcCloses, ecCloses, cpc, r,
                   errs, retErr, recvLog, ecSeen>>

\* Mutation: a rejected entry is not sent but still goes on to the recursion
\* test.
IterSpawnsRejected(t) ==
    /\ tasks[t].pc = "iter"
    /\ tasks' = [tasks EXCEPT ![t] =
                   IF @.i > Len(@.des) THEN [@ EXCEPT !.pc = "wgdone"]
                   ELSE IF Skip(filter, DePath(t), De(t))
                        THEN [@ EXCEPT !.pc = "spawn"]
                        ELSE [@ EXCEPT !.pc = "sendrc"]]
    /\ UNCHANGED <<args, prev, scanPc, wg, s, rcCloses, ecCloses, cpc, r,
                   errs, retErr, recvLog, ecSeen>>

\* do: the head of the range loop and the filter test
Iter(t) ==
    /\ tasks[t].pc = "iter"
    /\ tasks' = [tasks EXCEPT ![t] =
                   IF @.i > Len(@.des) THEN [@ EXCEPT !.pc = "wgdone"]
                   ELSE IF Skip(filter, DePath(t), De(t))
                        THEN [@ EXCEPT !.i = @ + 1]
                        ELSE [@ EXCEPT !.pc = "sendrc"]]
    /\ UNCHANGED <<args, prev, scanPc, wg, s, rcCloses, ecCloses, cpc, r,
                   errs, retErr, recvLog, ecSeen>>

\* Mutation: the parent takes the slot for the child before the go statement.
SpawnAcquires(t) ==
    /\ tasks[t].pc = "spawn"
    /\ IF Recurse(tasks[t].mm, De(t))
       THEN /\ s < sCap
            /\ s' = s + 1
            /\ wg' = wg + 1
            /\ tasks' = (DePath(t) :> NewTask("read", ChildDepth(tasks[t].mm)))
                        @@ [tasks EXCEPT ![t].pc = "iter", ![t].i = @ + 1]
       ELSE /\ wg' = wg
            /\ s' = s
            /\ tasks' = [tasks EXCEPT ![t].pc = "iter", ![t].i = @ + 1]
    /\ UNCHANGED <<args, prev, scanPc, rcCloses, ecCloses, cpc, r, errs,
                   retErr, recvLog, ecSeen>>

\* do: after the send, wg.Add(1) and the go statement for a subdirectory
Spawn(t) ==
    /\ tasks[t].pc = "spawn"
    /\ IF Recurse(tasks[t].mm, De(t))
       THEN /\ wg' = wg + 1
            /\ tasks' = (DePath(t) :> NewTask("acquire", ChildDepth(tasks[t].mm)))
                        @@ [tasks EXCEPT ![t].pc = "iter", ![t].i = @ + 1]
       ELSE /\ wg' = wg
            /\ tasks' = [tasks EXCEPT ![t].pc = "iter", ![t].i = @ + 1]
    /\ UNCHANGED <<args, prev, scanPc, s, rcCloses, ecCloses, cpc, r, errs,
                   retErr, recvLog, ecSeen>>

\* Mutation: wg.Done() is missing on the path of a failed read.
WgDoneOnlyOnSuccess(t) ==
    /\ tasks[t].pc = "wgdone"
    /\ wg' = IF tasks[t].err.isNil THEN wg - 1 ELSE wg
    /\ tasks' = [tasks EXCEPT ![t].pc = "release"]
    /\ UNCHANGED <<args, prev, scanPc, s, rcCloses, ecCloses, cpc, r, errs,
                   retErr, recvLog, ecSeen>>

\* do: the deferred wg.Done()
WgDone(t) ==
    /\ tasks[t].pc = "wgdone"
    /\ wg' = wg - 1
    /\ tasks' = [tasks EXCEPT ![t].pc = "release"]
    /\ UNCHANGED <<args, prev, scanPc, s, rcCloses, ecCloses, cpc, r, errs,
                   retErr, recvLog, ecSeen>>

\* Mutation: the slot is given back only after a successful read.
ReleaseOnlyOnSuccess(t) ==
    /\ tasks[t].pc = "release"
    /\ s' = IF tasks[t].err.isNil THEN s - 1 ELSE s
    /\ tasks' = [tasks EXCEPT ![t].pc = "returned"]
    /\ UNCHANGED <<args, prev, scanPc, wg, rcCloses, ecCloses, cpc, r,
                   errs, retErr, recvLog, ecSeen>>

\* Mutation: the goroutine ends without giving its slot back.
ReleaseKeepsSlot(t) ==
    /\ tasks[t].pc = "release"
    /\ tasks' = [tasks EXCEPT ![t].pc = "returned"]
    /\ UNCHANGED <<args, prev, scanPc, wg, s, rcCloses, ecCloses, cpc, r,
                   errs, retErr, recvLog, ecSeen>>

\* the goroutine: the deferred <-s
Release(t) ==
    /\ tasks[t].pc = "release"
    /\ s' = s - 1
    /\ tasks' = [tasks EXCEPT ![t].pc = "returned"]
    /\ UNCHANGED <<args, prev, scanPc, wg, rcCloses, ecCloses, cpc, r,
                   errs, retErr, recvLog, ecSeen>>

\* ---------------------------------------------------------------- consumer
\* Mutation: the collector goes on after an error and forgets it.
ReturnsOnErrorNever(md) == FALSE

\* What the consumer does with a non-nil error: ScanSync returns it, the
\* README loop reports it and goes on.
ReturnsOnError(md) == md = "sync"

\* Mutation: the collector puts a new result in front of the list.
RecvResultPrepend(t) ==
    /\ cpc = "run"
    /\ tasks[t].pc = "sendrc"
    /\ rcCloses = 0
    /\ r' = <<DePath(t)>> \o r
    /\ recvLog' = Append(recvLog, [err |-> NilErr, path |-> DePath(t)])
    /\ tasks' = [tasks EXCEPT ![t].pc = "spawn"]
    /\ UNCHANGED <<args, prev, scanPc, wg, s, rcCloses, ecCloses, cpc,
                   errs, retErr, ecSeen>>

\* rc <- path in do, met by case rs, ok := <-rc
RecvResult(t) ==
    /\ cpc = "run"
    /\ tasks[t].pc = "sendrc"
    /\ rcCloses = 0
    /\ r' = Append(r, DePath(t))
    /\ recvLog' = Append(recvLog, [err |-> NilErr, path |-> DePath(t)])
    /\ tasks' = [tasks EXCEPT ![t].pc = "spawn"]
    /\ UNCHANGED <<args, prev, scanPc, wg, s, rcCloses, ecCloses, cpc,
                   errs, retErr, ecSeen>>

\* ec <- err in do, met by case err, ok := <-ec
RecvError(t) ==
    /\ cpc = "run"
    /\ tasks[t].pc = "senderr"
    /\ ecCloses = 0
    /\ recvLog' = Append(recvLog, [err |-> tasks[t].err, path |-> <<>>])
    /\ tasks' = [tasks EXCEPT ![t].pc = "wgdone"]
    /\ IF ReturnsOnError(mode)
       THEN /\ ~tasks[t].err.isNil
            /\ retErr' = tasks[t].err
            /\ cpc' = "returned"
            /\ errs' = errs
       ELSE /\ errs' = Append(errs, tasks[t].err)
            /\ UNCHANGED <<retErr, cpc>>
    /\ UNCHANGED <<args, prev, scanPc, wg, s, rcCloses, ecCloses, r,
                   ecSeen>>

\* case rs, ok := <-rc with ok false: return r, nil
RecvRcClosed ==
    /\ cpc = "run"
    /\ rcCloses > 0
    /\ cpc' = "returned"
    /\ retErr' = NilErr
    /\ UNCHANGED <<args, prev, scanPc, tasks, wg, s, rcCloses, ecCloses,
                   r, errs, recvLog, ecSeen>>

\* case err, ok := <-ec with ok false: continue
RecvEcClosed ==
    /\ cpc = "run"
    /\ ecCloses > 0
    /\ ecSeen' = TRUE
    /\ UNCHANGED <<args, prev, scanPc, tasks, wg, s, rcCloses, ecCloses,
                   cpc, r, errs, retErr, recvLog>>

\* ---------------------------------------------------------------- system
Next ==
    \/ ScanAdd
    \/ ScanAcquire
    \/ ScanWait
    \/ CloseEc
    \/ CloseRc
    \/ \E t \in DOMAIN tasks : Acquire(t)
    \/ \E t \in DOMAIN tasks : Read(t)
    \/ \E t \in DOMAIN tasks : Iter(t)
    \/ \E t \in DOMAIN tasks : Spawn(t)
    \/ \E t \in DOMAIN tasks : WgDone(t)
    \/ \E t \in DOMAIN tasks : Release(t)
    \/ \E t \in DOMAIN tasks : RecvResult(t)
    \/ \E t \in DOMAIN tasks : RecvError(t)
    \/ RecvRcClosed
    \/ RecvEcClosed

Spec == Init /\ [][Next]_vars

\* The scheduler runs every goroutine that can take a step, and the streaming
\* consumer keeps receiving: a behaviour does not stop while a step is enabled.
InitStream == Init /\ mode = "stream"

FairSpec == InitStream /\ [][Next]_vars /\ WF_vars(Next)

\* ---------------------------------------------------------------- vocabulary
ToSet(sq) == { sq[i] : i \in DOMAIN sq }

Count(sq, x) == Cardinality({ i \in DOMAIN sq : sq[i] = x })

NoDup(sq) == Cardinality(ToSet(sq)) = Len(sq)

Parent(p) == SubSeq(p, 1, Len(p) - 1)

RECURSIVE Walk(_, _, _)
\* filepath.Walk below pp, as TestScan uses it: every path under pp in lexical
\* order, the directory itself left out.
Walk(tr, pp, k) ==
    IF k > MaxWidth THEN <<>>
    ELSE IF Join(pp, k) \in DOMAIN tr
         THEN <<Join(pp, k)>>
              \o (IF tr[Join(pp, k)] = "file" THEN <<>> ELSE Walk(tr, Join(pp, k), 1))
              \o Walk(tr, pp, k + 1)
         ELSE Walk(tr, pp, k + 1)

NoBad(tr) == \A p \in DOMAIN tr : tr[p] # "bad"

\* The entries at levels 1..d+1 below the root (all of them when d < 0).
Levels(tr, d) == { p \in ToSet(Walk(tr, root, 1)) : d < 0 \/ Len(p) <= d + 1 }

\* The directories a traversal with a nil filter reads: those no deeper than
\* the depth allows whose ancestors were all read successfully.
ExpectedTasks(tr, d) ==
    { p \in DOMAIN tr : /\ tr[p] # "file"
                        /\ d < 0 \/ Len(p) <= d
                        /\ \A k \in 0 .. Len(p) - 1 : tr[SubSeq(p, 1, k)] = "dir" }

SyncDone == mode = "sync" /\ cpc = "returned"

StreamDone == mode = "stream" /\ cpc = "returned"

\* do has returned in task t (its deferred wg.Done has run).
Returned(t) == tasks[t].pc \in {"release", "returned"}

\* The loop of task t has run to its end after a successful read.
LoopDone(t) == tasks[t].pc \in {"wgdone", "release", "returned"} /\ tasks[t].err.isNil

Accepts(fn, p, de) == fn = "nil" \/ Call(fn, p, de)

\* ---------------------------------------------------------------- C1
\* C1: on a tree in which no directory read fails, ScanSync(root, -1, nil)
\* returns a nil error and a list holding every path strictly under root
\* exactly once: the same set and the same count as the independent walk.
C1_FullScan ==
    (SyncDone /\ maxDepth < 0 /\ filter = "nil" /\ NoBad(tree)) =>
        /\ retErr.isNil
        /\ ToSet(r) = ToSet(Walk(tree, root, 1))
        /\ Len(r) = Len(Walk(tree, root, 1))

\* A full scan has returned three entries, one of them three levels down,
\* with two limiter slots available.
C1_Witness ==
    /\ SyncDone /\ maxDepth < 0 /\ filter = "nil" /\ NoBad(tree)
    /\ sCap = 2
    /\ Len(r) = 3
    /\ \E i \in DOMAIN r : Len(r[i]) = 3

\* ---------------------------------------------------------------- C2
\* C2: with a nil filter and no read failure, ScanSync(root, d, nil) for
\* d >= 0 returns exactly the paths at levels 1..d+1 below root, each once;
\* and no task is ever started from a task whose remaining depth is 0.
C2_DepthBound ==
    /\ (SyncDone /\ maxDepth >= 0 /\ filter = "nil" /\ NoBad(tree)) =>
           /\ retErr.isNil
           /\ ToSet(r) = { p \in DOMAIN tree : Len(p) >= 1 /\ Len(p) <= maxDepth + 1 }
           /\ NoDup(r)
    /\ \A t \in DOMAIN tasks : t # root => tasks[Parent(t)].mm # 0

\* A scan with maxDepth 1 has returned the child and the grandchild of a
\* chain of three directories and left the great-grandchild out.
C2_Witness ==
    /\ SyncDone /\ maxDepth = 1 /\ filter = "nil" /\ NoBad(tree)
    /\ <<1, 1, 1>> \in DOMAIN tree
    /\ ToSet(r) = {<<1>>, <<1, 1>>}

\* ---------------------------------------------------------------- C3
\* C3: each channel is closed at most once, a channel is closed only when the
\* root task exists and do has returned in every task, and no task is at a
\* send on a channel that is closed.
C3_CloseAfterAll ==
    /\ rcCloses <= 1
    /\ ecCloses <= 1
    /\ (rcCloses > 0 \/ ecCloses > 0) =>
           /\ root \in DOMAIN tasks
           /\ \A t \in DOMAIN tasks : Returned(t)
    /\ \A t \in DOMAIN tasks :
           /\ tasks[t].pc = "sendrc" => rcCloses = 0
           /\ tasks[t].pc = "senderr" => ecCloses = 0

\* Both channels are closed after a traversal of three directories.
C3_Witness ==
    /\ rcCloses = 1
    /\ ecCloses = 1
    /\ Cardinality(DOMAIN tasks) >= 3

\* ---------------------------------------------------------------- C4
\* Everything has ended: every goroutine has finished, both channels are
\* closed and the consumer has left its loop.
AllDone ==
    /\ scanPc = "done"
    /\ rcCloses = 1
    /\ ecCloses = 1
    /\ root \in DOMAIN tasks
    /\ \A t \in DOMAIN tasks : tasks[t].pc = "returned"
    /\ cpc = "returned"

\* C4: with the consumer that keeps receiving, under fair scheduling, no state
\* short of the end is stuck, and eventually every task has terminated and
\* both channels are closed, for every tree and limiter capacity.
C4_Terminates == [](~AllDone => ENABLED Next) /\ <>AllDone

\* A streamed traversal of three directories, one of them unreadable, has
\* ended with a single limiter slot.
C4_Witness ==
    /\ StreamDone
    /\ AllDone
    /\ sCap = 1
    /\ Cardinality(DOMAIN tasks) >= 3
    /\ Len(errs) >= 1

\* ---------------------------------------------------------------- C5
\* The root is readable and exactly one entry of the tree is an unreadable
\* directory, a child of the root that has a sibling.
OneBadChild(tr) ==
    /\ tr[root] = "dir"
    /\ Cardinality({ p \in DOMAIN tr : tr[p] = "bad" }) = 1
    /\ \A p \in DOMAIN tr : tr[p] = "bad" => Len(p) = 1
    /\ Cardinality({ p \in DOMAIN tr : Len(p) = 1 }) >= 2

\* The paths under root that are not inside an unreadable directory.
Outside(tr) ==
    { p \in DOMAIN tr : /\ Len(p) >= 1
                        /\ \A k \in 1 .. Len(p) - 1 : tr[SubSeq(p, 1, k)] # "bad" }

\* C5: on a root with one unreadable subdirectory among readable siblings, an
\* unlimited unfiltered ScanSync returns a non-nil error together with every
\* path outside the unreadable subdirectory.
C5_PartialFailure ==
    (SyncDone /\ maxDepth < 0 /\ filter = "nil" /\ OneBadChild(tree)) =>
        /\ ~retErr.isNil
        /\ Outside(tree) \subseteq ToSet(r)

\* ---------------------------------------------------------------- C6
\* C6: a task whose read failed has no child task, no result of its own and
\* at most one error received; and when the draining consumer is done it has
\* received exactly one error for every unreadable directory that got a task
\* and exactly once every accepted entry of every readable directory that got
\* a task; with a nil filter the tasks are exactly the directories that the
\* depth and the readable ancestors allow, whatever failed elsewhere.
C6_Isolation ==
    /\ \A t \in DOMAIN tasks : ~tasks[t].err.isNil =>
           /\ tree[t] = "bad"
           /\ \A u \in DOMAIN tasks : u = root \/ Parent(u) # t
           /\ \A i \in DOMAIN r : Parent(r[i]) # t
           /\ Cardinality({ i \in DOMAIN recvLog : recvLog[i].err = PathError(t) }) <= 1
    /\ StreamDone =>
           /\ \A t \in DOMAIN tasks : tree[t] = "bad" => Count(errs, PathError(t)) = 1
           /\ Len(errs) = Cardinality({ t \in DOMAIN tasks : tree[t] = "bad" })
           /\ \A t \in DOMAIN tasks : tree[t] = "dir" =>
                  \A i \in DOMAIN Listing(tree, t, 1) :
                      LET de == Listing(tree, t, 1)[i] IN
                        Accepts(filter, Join(t, de.name), de) =>
                            Count(r, Join(t, de.name)) = 1
           /\ filter = "nil" => DOMAIN tasks = ExpectedTasks(tree, maxDepth)

\* The draining consumer is done after a traversal in which one directory
\* failed and a sibling directory delivered an entry of its own.
C6_Witness ==
    /\ StreamDone
    /\ Len(errs) = 1
    /\ \E i \in DOMAIN r : Len(r[i]) = 2
    /\ \E t \in DOMAIN tasks : Len(t) = 1 /\ tree[t] = "bad"

\* ---------------------------------------------------------------- C7
ErrIdx == { i \in DOMAIN recvLog : ~recvLog[i].err.isNil }

\* C7: ScanSync returns a non-nil error exactly when a directory read of the
\* traversal has failed; a nil error means no error was ever received; a
\* non-nil error is the first error received, and the list returned with it
\* is exactly the results received before it.
C7_NoDroppedError ==
    SyncDone =>
        /\ ~retErr.isNil <=>
               \E t \in DOMAIN tasks : tree[t] = "bad" /\ tasks[t].pc \notin {"acquire", "read"}
        /\ retErr.isNil => ErrIdx = {}
        /\ ~retErr.isNil =>
               \E k \in ErrIdx :
                   /\ \A j \in ErrIdx : k <= j
                   /\ retErr = recvLog[k].err
                   /\ Len(r) = k - 1
                   /\ \A i \in 1 .. k - 1 : r[i] = recvLog[i].path

\* ScanSync has returned an error with two results while a second failed
\* read is still waiting to send its error.
C7_Witness ==
    /\ SyncDone
    /\ ~retErr.isNil
    /\ Len(r) = 2
    /\ \E t \in DOMAIN tasks : tasks[t].pc = "senderr"

\* ---------------------------------------------------------------- C8
\* C8: on a tree without read failures the directory-only scan returns
\* exactly the directories, and the file-only scan exactly the other entries,
\* of the unfiltered result for the same root and depth (the entries at the
\* levels the depth allows), so that the two partition it.
C8_Partition ==
    (SyncDone /\ NoBad(tree)) =>
        /\ filter = "FilterDir" =>
               ToSet(r) = { p \in Levels(tree, maxDepth) : tree[p] = "dir" }
        /\ filter = "FilterFile" =>
               ToSet(r) = { p \in Levels(tree, maxDepth) : tree[p] = "file" }

\* ---------------------------------------------------------------- C9
\* C9: a task that has finished its loop with a remaining depth other than 0
\* has started a task for every directory among its entries that the
\* predicate rejected.
C9_Orthogonal ==
    \A t \in DOMAIN tasks :
        (LoopDone(t) /\ tasks[t].mm # 0) =>
            \A i \in DOMAIN tasks[t].des :
                LET de == tasks[t].des[i] IN
                  (IsDir(de) /\ ~Accepts(filter, Join(t, de.name), de)) =>
                      Join(t, de.name) \in DOMAIN tasks

\* ---------------------------------------------------------------- C10
\* C10: every path received is an entry of a directory that has a task and is
\* accepted by the predicate, no path is received twice, and once a task has
\* finished its loop each of its accepted entries has been received exactly
\* once and none of its rejected entries; a nil predicate rejects nothing.
C10_FilterSound ==
    /\ \A i \in DOMAIN r :
           /\ r[i] \in DOMAIN tree
           /\ Len(r[i]) >= 1
           /\ Parent(r[i]) \in DOMAIN tasks
           /\ Accepts(filter, r[i], DirEntry(r[i][Len(r[i])], tree[r[i]]))
    /\ NoDup(r)
    /\ \A t \in DOMAIN tasks : LoopDone(t) =>
           \A i \in DOMAIN Listing(tree, t, 1) :
               LET de == Listing(tree, t, 1)[i] IN
                 /\ Accepts(filter, Join(t, de.name), de) => Count(r, Join(t, de.name)) = 1
                 /\ ~Accepts(filter, Join(t, de.name), de) => Count(r, Join(t, de.name)) = 0
                 /\ filter = "nil" => Count(r, Join(t, de.name)) = 1

\* Under the directory-only predicate a task has finished a directory that
\* holds a file and a subdirectory, and only the subdirectory was received.
C10_Witness ==
    /\ filter = "FilterDir"
    /\ \E t \in DOMAIN tasks :
           /\ LoopDone(t)
           /\ Len(tasks[t].des) = 2
           /\ \E i, j \in 1 .. 2 : /\ IsDir(tasks[t].des[i])
                                   /\ ~IsDir(tasks[t].des[j])
                                   /\ Join(t, tasks[t].des[i].name) \in ToSet(r)
                                   /\ Join(t, tasks[t].des[j].name) \notin ToSet(r)

\* ---------------------------------------------------------------- C11
\* The tasks that have taken a limiter slot and not yet given it back.
Holding == { t \in DOMAIN tasks :
               tasks[t].pc \in {"read", "iter", "sendrc", "spawn", "senderr",
                                "wgdone", "release"} }

\* C11: the number of tasks that hold a limiter slot, every task reading a
\* directory among them, is at most the capacity max(1, NumCPU/2).
C11_Bounded ==
    /\ Cardinality(Holding) <= sCap
    /\ s = Cardinality(Holding)
    /\ \E n \in 1 .. MaxCPU :
           sCap = (IF n \div 2 >= 1 THEN n \div 2 ELSE 1)

\* Every slot is in use and one more task is waiting for a slot.
C11_Witness ==
    /\ Cardinality(Holding) = sCap
    /\ \E t \in DOMAIN tasks : tasks[t].pc = "read" /\ t # root
    /\ \E t \in DOMAIN tasks : tasks[t].pc = "acquire"

\* ---------------------------------------------------------------- C12
\* C12: once ScanSync has returned, the traversal it started is never stuck
\* short of its end: as long as a task has not finished or a channel is not
\* closed, some goroutine can take a step.
C12_NoLeak == (SyncDone /\ ~ENABLED Next) => AllDone

\* ---------------------------------------------------------------- C13
\* The caller keeps the paths of its first ScanSync call and calls ScanSync
\* again with the same arguments on the same tree: new channels, a new
\* WaitGroup and a new limiter; goroutines the first call left behind have
\* no part in the second.
SecondCall ==
    /\ SyncDone
    /\ call = 1
    /\ call' = 2
    /\ first' = ToSet(r)
    /\ scanPc' = "add"
    /\ tasks' = <<>>
    /\ wg' = 0
    /\ s' = 0
    /\ rcCloses' = 0
    /\ ecCloses' = 0
    /\ cpc' = "run"
    /\ r' = <<>>
    /\ errs' = <<>>
    /\ retErr' = NilErr
    /\ recvLog' = <<>>
    /\ ecSeen' = FALSE
    /\ UNCHANGED args

NextTwice == Next \/ SecondCall

SpecTwice == Init /\ [][NextTwice]_vars

\* C13: the second of two ScanSync calls with the same root, maxDepth and
\* predicate over the unchanged tree returns the same set of paths as the
\* first, whatever the interleavings of the two traversals.
C13_Idempotent == (call = 2 /\ SyncDone) => ToSet(r) = first

\* ---------------------------------------------------------------- C14
\* The tasks that are scheduled and in which do has not returned: the root
\* from wg.Add(1) in scan on, a child from wg.Add(1) in its parent on.
Outstanding ==
    Cardinality({ t \in DOMAIN tasks : ~Returned(t) })
    + (IF scanPc = "acquire" THEN 1 ELSE 0)

JoinCount ==
    /\ wg = Outstanding
    /\ wg >= 0
    /\ scanPc \in {"closeEc", "closeRc", "done"} =>
           /\ Outstanding = 0
           /\ root \in DOMAIN tasks

\* A step that starts the task of a subdirectory adds one to the counter
\* while the parent, at its go statement, is still counted.
JoinStep ==
    \A t \in DOMAIN tasks' :
        (t \notin DOMAIN tasks /\ t # root) =>
            /\ wg' = wg + 1
            /\ Parent(t) \in DOMAIN tasks
            /\ tasks[Parent(t)].pc = "spawn"
            /\ ~Returned(Parent(t))'

\* C14: the join counter is the number of tasks scheduled and not returned,
\* on the success path and on the read-error path alike, and is never
\* negative; it is incremented for a child while its parent is still counted;
\* and the wait in scan has returned only when no task is outstanding.
C14_Join == []JoinCount /\ [][JoinStep]_vars

\* The counter is 2 while a task whose read failed and a task whose read
\* succeeded are both outstanding, a third task having returned.
C14_Witness ==
    /\ wg = 2
    /\ \E t \in DOMAIN tasks : ~Returned(t) /\ ~tasks[t].err.isNil
    /\ \E t \in DOMAIN tasks : ~Returned(t) /\ tasks[t].pc = "sendrc"
    /\ \E t \in DOMAIN tasks : Returned(t)

\* ---------------------------------------------------------------- C15
SpawnFree ==
    /\ \A t \in DOMAIN tasks : tasks[t].pc = "spawn" => ENABLED Spawn(t)
    /\ s = Cardinality({ t \in DOMAIN tasks : tasks[t].pc \notin {"acquire", "returned"} })
    /\ scanPc = "acquire" => ENABLED ScanAcquire

\* A step that starts the task of a subdirectory takes no slot: the new task
\* begins at its own acquire.
SpawnStep ==
    \A t \in DOMAIN tasks' :
        (t \notin DOMAIN tasks /\ t # root) =>
            /\ s' = s
            /\ tasks'[t].pc = "acquire"

\* C15: a parent at its go statement can always proceed, whatever the number
\* of slots in use, and the step takes no slot; a task waiting to acquire
\* holds none; and the acquisition for the root in scan is never blocked.
C15_SelfAcquire == []SpawnFree /\ [][SpawnStep]_vars

\* A parent is about to start the task of a subdirectory while every slot
\* is in use.
C15_Witness ==
    /\ s = sCap
    /\ \E t \in DOMAIN tasks :
           /\ tasks[t].pc = "spawn"
           /\ Recurse(tasks[t].mm, De(t))

\* ---------------------------------------------------------------- C16
\* The wait in scan has returned.
WaitReturned == scanPc \in {"closeEc", "closeRc", "done"}

\* Every goroutine of the traversal has ended.
AllEnded == root \in DOMAIN tasks /\ \A t \in DOMAIN tasks : tasks[t].pc = "returned"

\* C16 as claimed: when the join wait has returned, every permit is free.
C16_FreeAtWait == WaitReturned => s = 0

\* C16 as amended: the slots in use are exactly those of the goroutines that
\* acquired and have not ended, after a failed read as after a successful
\* one; when the join wait has returned the only slots still in use belong to
\* goroutines in which do has returned and that are about to release; and
\* when every goroutine has ended every permit is free.
C16_Released ==
    /\ s = Cardinality(Holding)
    /\ WaitReturned =>
           s = Cardinality({ t \in DOMAIN tasks : tasks[t].pc = "release" })
    /\ AllEnded => s = 0

\* Every goroutine of a traversal with a failed and a successful read has
\* ended.
C16_Witness ==
    /\ AllEnded
    /\ s = 0
    /\ \E t \in DOMAIN tasks : ~tasks[t].err.isNil
    /\ \E t \in DOMAIN tasks : tasks[t].err.isNil /\ Len(tasks[t].des) >= 1

\* ---------------------------------------------------------------- C17
\* C17 as claimed: a child receives d-1 when its parent has d > 0 and d
\* itself when d < 0, and under a negative maxDepth no depth is 0.
C17_Unchanged ==
    \A t \in DOMAIN tasks :
        /\ t # root =>
               /\ tasks[Parent(t)].mm > 0 => tasks[t].mm = tasks[Parent(t)].mm - 1
               /\ tasks[Parent(t)].mm < 0 => tasks[t].mm = tasks[Parent(t)].mm
        /\ maxDepth < 0 => tasks[t].mm # 0

\* C17 as amended: the root has maxDepth, a child receives d-1 from a parent
\* with d, for d > 0 and for d < 0 alike, and under a negative maxDepth every
\* depth is negative, so none is 0.
C17_Depth ==
    \A t \in DOMAIN tasks :
        /\ t = root => tasks[t].mm = maxDepth
        /\ t # root =>
               /\ tasks[Parent(t)].mm # 0
               /\ tasks[t].mm = tasks[Parent(t)].mm - 1
        /\ maxDepth < 0 => tasks[t].mm < 0

\* Under maxDepth -1 a task two levels down has depth -3.
C17_Witness ==
    /\ maxDepth = -1
    /\ \E t \in DOMAIN tasks : Len(t) = 2 /\ tasks[t].mm = -3

\* ---------------------------------------------------------------- C18
\* The place of path p in the listing that os.ReadDir returns for its parent.
ListPos(p) ==
    CHOOSE k \in DOMAIN Listing(tree, Parent(p), 1) :
        Join(Parent(p), Listing(tree, Parent(p), 1)[k].name) = p

\* C18: of two received entries of the same directory, the one that the
\* listing of the directory returned first was received first.
C18_Order ==
    \A i, j \in DOMAIN r :
        (i < j /\ Parent(r[i]) = Parent(r[j])) => ListPos(r[i]) < ListPos(r[j])

\* Two entries of one directory were received in listing order with an entry
\* of another directory between them.
C18_Witness ==
    \E i, j, k \in DOMAIN r :
        /\ i < j /\ j < k
        /\ Parent(r[i]) = Parent(r[k])
        /\ Parent(r[j]) # Parent(r[i])

\* ---------------------------------------------------------------- C19
\* C19: when the read of the root fails no task other than the root's ever
\* exists and no result is received; ScanSync returns the empty list with
\* the error of the root; and the traversal is never stuck short of its end,
\* where the counter is 0, every permit is free and both channels are closed.
C19_RootFailure ==
    tree[root] = "bad" =>
        /\ DOMAIN tasks \subseteq {root}
        /\ r = <<>>
        /\ SyncDone => retErr = PathError(root)
        /\ ~ENABLED Next => AllDone
        /\ AllDone => (wg = 0 /\ s = 0 /\ rcCloses = 1 /\ ecCloses = 1)

\* ScanSync has returned on an unreadable root that is not empty, and the
\* traversal has ended.
C19_Witness ==
    /\ tree[root] = "bad"
    /\ Size(tree) >= 2
    /\ SyncDone
    /\ AllDone

\* ---------------------------------------------------------------- C20
\* C20: whenever rc is closed, ec is closed and no task is waiting to send an
\* error; a consumer that has left its loop on seeing rc closed has received
\* the error of every failed read and leaves both channels closed.
C20_CloseOrder ==
    /\ rcCloses > 0 => (ecCloses > 0 /\ \A t \in DOMAIN tasks : tasks[t].pc # "senderr")
    /\ (cpc = "returned" /\ retErr.isNil) =>
           /\ rcCloses = 1
           /\ ecCloses = 1
           /\ \A t \in DOMAIN tasks :
                  tree[t] = "bad" =>
                      \E i \in DOMAIN recvLog : recvLog[i].err = PathError(t)

\* The streaming consumer has left its loop on rc closed, having received an
\* error and never having observed ec closed.
C20_Witness ==
    /\ StreamDone
    /\ Len(errs) >= 1
    /\ ~ecSeen

====
